---- MODULE Spec2Model ----
(***************************************************************************)
(* Model of the email checker: the format validator                        *)
(* (is_email_format_valid), the reachability prober (verify_email_smtp),   *)
(* check_email, and the validation loop of the batch driver                *)
(* (streamlit_email.py).                                                   *)
(*                                                                         *)
(* A string is a sequence of one-character strings.  DNS and the mail      *)
(* servers are the environment: every outcome they can produce is a        *)
(* nondeterministic choice of the action that makes the call.              *)
(***************************************************************************)
EXTENDS Naturals, Sequences, FiniteSets

VARIABLES
    caller,        \* which entry point runs: "verify_email_smtp", "check_email", "batch"
    email,         \* the address string handed to the functions
    pc,            \* position in the running code
    format_valid,  \* last value returned by is_email_format_valid
    username,      \* verify_email_smtp: local variables of the split
    domain,
    mx_records,    \* verify_email_smtp: the resolved MX host list
    idx,           \* verify_email_smtp: position of the for loop in mx_records (1-based)
    code,          \* verify_email_smtp: status code of the last RCPT reply (0: unbound)
    result,        \* value returned by verify_email_smtp / check_email, <<flag, message>>
    connects,      \* history: hosts smtp.connect was called on, in call order
    onlyTimeouts,  \* history: every connect so far ended in socket.timeout
    acceptedAt,    \* history: first loop position whose RCPT reply was 250 (0: none)
    cleanAt,       \* history: first position with a 250 reply and a completed quit
    respondedAt,   \* history: first loop position whose RCPT got any reply (0: none)
    dnsOutcome,    \* history: how dns.resolver.resolve ended ("none" before the call)
    rows,          \* batch: the cells of the selected email column, one per record
    i,             \* batch: index of the record being processed (1-based)
    df,            \* batch: the added fields of every record
    columns,       \* batch: the added column names present in the table
    netRows        \* batch history: records during which DNS or SMTP was called

vars == <<caller, email, pc, format_valid, username, domain, mx_records, idx, code,
          result, connects, onlyTimeouts, acceptedAt, cleanAt, respondedAt,
          dnsOutcome, rows, i, df, columns, netRows>>

proberVars == <<username, domain, mx_records, idx, code, connects, onlyTimeouts,
                acceptedAt, cleanAt, respondedAt, dnsOutcome>>
batchVars == <<rows, i, df, columns>>

(***************************************************************************)
(* Bounds of the model                                                     *)
(***************************************************************************)
MaxLen == 7        \* longest address string given to check_email
MaxProbeLen == 4   \* longest address string given to verify_email_smtp directly
MaxMX == 2         \* longest MX list DNS returns
MaxRows == 2       \* most records in an uploaded dataset

\* Characters the bounded inputs are drawn from.
Alphabet == {"a", "1", ".", "%", "@", "\n"}
ProbeAlphabet == {"a", "@"}
Hosts == {"mx1", "mx2"}
\* RCPT reply codes a server may give: accepted, will forward, try later, rejected.
Codes == {250, 251, 450, 550}

\* the strings over A of length at most n
StringsUpTo(A, n) == UNION {[1..k -> A] : k \in 0..n}

(***************************************************************************)
(* is_email_format_valid: the pattern                                      *)
(*   ^[a-zA-Z0-9._%+-]+@[a-zA-Z0-9.-]+\.[a-zA-Z]{2,}$   under re.match     *)
(***************************************************************************)
Letters ==
    {"a","b","c","d","e","f","g","h","i","j","k","l","m",
     "n","o","p","q","r","s","t","u","v","w","x","y","z",
     "A","B","C","D","E","F","G","H","I","J","K","L","M",
     "N","O","P","Q","R","S","T","U","V","W","X","Y","Z"}
Digits == {"0","1","2","3","4","5","6","7","8","9"}
LocalChars == Letters \cup Digits \cup {".", "_", "%", "+", "-"}
DomainChars == Letters \cup Digits \cup {".", "-"}

\* every character of s[from..to] is in class
AllIn(s, from, to, class) == \A p \in from..to : s[p] \in class

\* Python's $ (no MULTILINE): at the end of the string, or just before a
\* newline that is the last character of the string.
DollarAt(s, e) ==
    \/ e = Len(s)
    \/ e = Len(s) - 1 /\ s[Len(s)] = "\n"

\* Variant of PatternMatch with [..]* for the local part (it may be empty).
PatternMatchLocalStar(s) ==
    \E l \in 0..Len(s) :
        /\ l + 1 <= Len(s)
        /\ s[l + 1] = "@"
        /\ AllIn(s, 1, l, LocalChars)
        /\ \E d \in (l + 3)..Len(s) :
              /\ s[d] = "."
              /\ AllIn(s, l + 2, d - 1, DomainChars)
              /\ \E e \in (d + 2)..Len(s) :
                    /\ AllIn(s, d + 1, e, Letters)
                    /\ DollarAt(s, e)

\* s[1..l] is the local part, s[l+1] the "@", s[l+2..d-1] the domain
\* characters, s[d] the literal dot, s[d+1..e] the final letters.
PatternMatch(s) ==
    \E l \in 1..Len(s) :
        /\ l + 1 <= Len(s)
        /\ s[l + 1] = "@"
        /\ AllIn(s, 1, l, LocalChars)
        /\ \E d \in (l + 3)..Len(s) :
              /\ s[d] = "."
              /\ AllIn(s, l + 2, d - 1, DomainChars)
              /\ \E e \in (d + 2)..Len(s) :
                    /\ AllIn(s, d + 1, e, Letters)
                    /\ DollarAt(s, e)

is_email_format_valid(e) == PatternMatch(e)

(***************************************************************************)
(* str.split('@')                                                          *)
(***************************************************************************)
Occurrences(s, c) == {p \in 1..Len(s) : s[p] = c}

Min(S) == CHOOSE x \in S : \A y \in S : x <= y

RECURSIVE split(_, _)
split(s, sep) ==
    IF Occurrences(s, sep) = {} THEN <<s>>
    ELSE LET p == Min(Occurrences(s, sep))
         IN  <<SubSeq(s, 1, p - 1)>> \o split(SubSeq(s, p + 1, Len(s)), sep)

\* str.split('@', 1): at most one split, the rest kept whole
split_once(s, sep) ==
    IF Occurrences(s, sep) = {} THEN <<s>>
    ELSE LET p == Min(Occurrences(s, sep))
         IN  <<SubSeq(s, 1, p - 1), SubSeq(s, p + 1, Len(s))>>

\* Variant of email_parts that splits at the first '@' only.
email_parts_maxsplit(s) == split_once(s, "@")

\* the parts "username, domain = email.split('@')" unpacks
email_parts(s) == split(s, "@")

(***************************************************************************)
(* Messages                                                                *)
(***************************************************************************)
MsgMissingAt == "Invalid email format (missing @ symbol)"
MsgNoMX == "No MX records found for domain"
MsgDNSError == "DNS error"
MsgResolveError == "Error resolving MX records"
MsgExists == "Email exists"
MsgInconclusive == "Email validation failed or timed out. This doesn't necessarily mean the email is invalid - many servers block SMTP verification."
MsgInvalidFormat == "Invalid email format"

None == <<>>
NaN == <<"NaN">>

(***************************************************************************)
(* verify_email_smtp                                                       *)
(***************************************************************************)
\* "return flag, message": control goes back to the caller
Return(flag, msg) ==
    /\ result' = <<flag, msg>>
    /\ pc' = IF caller = "batch" THEN "batch_after" ELSE "done"

\* Variant of Continue that gives up at the first failing host.
ContinueAbort ==
    /\ Return(FALSE, MsgInconclusive)
    /\ UNCHANGED idx

\* "continue" (in the else branch and in every except clause of the loop)
Continue ==
    /\ idx' = idx + 1
    /\ pc' = "loop"
    /\ UNCHANGED result

\* username, domain = email.split('@'); ValueError unless exactly two parts
Split ==
    /\ pc = "split"
    /\ LET parts == email_parts(email)
       IN  IF Len(parts) # 2
           THEN /\ Return(FALSE, MsgMissingAt)
                /\ UNCHANGED <<username, domain>>
           ELSE /\ username' = parts[1]
                /\ domain' = parts[2]
                /\ pc' = "resolve"
                /\ UNCHANGED result
    /\ UNCHANGED <<caller, email, format_valid, mx_records, idx, code, connects,
                   onlyTimeouts, acceptedAt, cleanAt, respondedAt, dnsOutcome,
                   netRows>>
    /\ UNCHANGED batchVars

\* Variant of Resolved without the "if not mx_records" return.
ResolvedNoEmptyCheck(l) ==
    /\ mx_records' = l
    /\ dnsOutcome' = IF l = <<>> THEN "empty" ELSE "ok"
    /\ idx' = 1
    /\ pc' = "loop"
    /\ UNCHANGED result

\* dns.resolver.resolve returned; mx_records = [str(r.exchange) for r in records];
\* an empty list returns the "No MX records" failure
Resolved(l) ==
    /\ mx_records' = l
    /\ IF l = <<>>
       THEN /\ dnsOutcome' = "empty"
            /\ Return(FALSE, MsgNoMX)
            /\ UNCHANGED idx
       ELSE /\ dnsOutcome' = "ok"
            /\ idx' = 1
            /\ pc' = "loop"
            /\ UNCHANGED result

\* dns.resolver.resolve raised: DNSException, or any other exception
ResolveRaised(kind) ==
    /\ dnsOutcome' = kind
    /\ Return(FALSE, IF kind = "DNSException" THEN MsgDNSError ELSE MsgResolveError)
    /\ UNCHANGED <<mx_records, idx>>

Resolve ==
    /\ pc = "resolve"
    /\ netRows' = netRows \cup {i}
    /\ \/ \E l \in StringsUpTo(Hosts, MaxMX) : Resolved(l)
       \/ \E kind \in {"DNSException", "Exception"} : ResolveRaised(kind)
    /\ UNCHANGED <<caller, email, format_valid, username, domain, code, connects,
                   onlyTimeouts, acceptedAt, cleanAt, respondedAt>>
    /\ UNCHANGED batchVars

\* the for loop is exhausted: the final return
Exhausted ==
    /\ pc = "loop"
    /\ idx > Len(mx_records)
    /\ Return(FALSE, MsgInconclusive)
    /\ UNCHANGED <<caller, email, format_valid, netRows>>
    /\ UNCHANGED proberVars
    /\ UNCHANGED batchVars

\* smtplib.SMTP(timeout=timeout); smtp.connect(mx_record)
Connect ==
    /\ pc = "loop"
    /\ idx <= Len(mx_records)
    /\ connects' = Append(connects, mx_records[idx])
    /\ netRows' = netRows \cup {i}
    /\ \E outcome \in {"ok", "timeout", "SMTPConnectError", "Exception"} :
          /\ onlyTimeouts' = (onlyTimeouts /\ outcome = "timeout")
          /\ IF outcome = "ok"
             THEN pc' = "helo" /\ UNCHANGED <<idx, result>>
             ELSE Continue
    /\ UNCHANGED <<caller, email, format_valid, username, domain, mx_records, code,
                   acceptedAt, cleanAt, respondedAt, dnsOutcome>>
    /\ UNCHANGED batchVars

\* smtp.helo(socket.getfqdn())
Helo ==
    /\ pc = "helo"
    /\ \E outcome \in {"ok", "SMTPServerDisconnected", "timeout"} :
          IF outcome = "ok"
          THEN pc' = "mail" /\ UNCHANGED <<idx, result>>
          ELSE Continue
    /\ UNCHANGED <<caller, email, format_valid, username, domain, mx_records, code,
                   connects, onlyTimeouts, acceptedAt, cleanAt, respondedAt,
                   dnsOutcome, netRows>>
    /\ UNCHANGED batchVars

\* smtp.mail(sender_email)
Mail ==
    /\ pc = "mail"
    /\ \E outcome \in {"ok", "SMTPServerDisconnected", "timeout"} :
          IF outcome = "ok"
          THEN pc' = "rcpt" /\ UNCHANGED <<idx, result>>
          ELSE Continue
    /\ UNCHANGED <<caller, email, format_valid, username, domain, mx_records, code,
                   connects, onlyTimeouts, acceptedAt, cleanAt, respondedAt,
                   dnsOutcome, netRows>>
    /\ UNCHANGED batchVars

\* code, message = smtp.rcpt(email): the server replied with code c
RcptReplied(c) ==
    /\ code' = c
    /\ respondedAt' = IF respondedAt = 0 THEN idx ELSE respondedAt
    /\ acceptedAt' = IF acceptedAt = 0 /\ c = 250 THEN idx ELSE acceptedAt
    /\ pc' = "quit"
    /\ UNCHANGED <<idx, result>>

Rcpt ==
    /\ pc = "rcpt"
    /\ \/ \E c \in Codes : RcptReplied(c)
       \/ /\ Continue
          /\ UNCHANGED <<code, respondedAt, acceptedAt>>
    /\ UNCHANGED <<caller, email, format_valid, username, domain, mx_records,
                   connects, onlyTimeouts, cleanAt, dnsOutcome, netRows>>
    /\ UNCHANGED batchVars

\* smtp.quit(): completes, or raises SMTPServerDisconnected when the server
\* has already dropped the connection
Quit ==
    /\ pc = "quit"
    /\ \/ /\ pc' = "decide"
          /\ cleanAt' = IF cleanAt = 0 /\ code = 250 THEN idx ELSE cleanAt
          /\ UNCHANGED <<idx, result>>
       \/ /\ Continue
          /\ UNCHANGED cleanAt
    /\ UNCHANGED <<caller, email, format_valid, username, domain, mx_records, code,
                   connects, onlyTimeouts, acceptedAt, respondedAt, dnsOutcome,
                   netRows>>
    /\ UNCHANGED batchVars

\* Variant of Decide that accepts every 2xx reply code.
DecideAny2xx ==
    /\ pc = "decide"
    /\ IF code >= 200 /\ code < 300
       THEN Return(TRUE, MsgExists) /\ UNCHANGED idx
       ELSE Continue
    /\ UNCHANGED <<caller, email, format_valid, username, domain, mx_records, code,
                   connects, onlyTimeouts, acceptedAt, cleanAt, respondedAt,
                   dnsOutcome, netRows>>
    /\ UNCHANGED batchVars

\* Variant of Decide that returns on any reply, failure when it is not 250.
DecideReturnsOnAnyReply ==
    /\ pc = "decide"
    /\ IF code = 250
       THEN Return(TRUE, MsgExists) /\ UNCHANGED idx
       ELSE Return(FALSE, MsgInconclusive) /\ UNCHANGED idx
    /\ UNCHANGED <<caller, email, format_valid, username, domain, mx_records, code,
                   connects, onlyTimeouts, acceptedAt, cleanAt, respondedAt,
                   dnsOutcome, netRows>>
    /\ UNCHANGED batchVars

\* if code == 250: return True, "Email exists"  else: continue
Decide ==
    /\ pc = "decide"
    /\ IF code = 250
       THEN Return(TRUE, MsgExists) /\ UNCHANGED idx
       ELSE Continue
    /\ UNCHANGED <<caller, email, format_valid, username, domain, mx_records, code,
                   connects, onlyTimeouts, acceptedAt, cleanAt, respondedAt,
                   dnsOutcome, netRows>>
    /\ UNCHANGED batchVars

Prober ==
    \/ Split
    \/ Resolve
    \/ Exhausted
    \/ Connect
    \/ Helo
    \/ Mail
    \/ Rcpt
    \/ Quit
    \/ Decide

\* the state of verify_email_smtp's locals and history at the start of a call
ProberFresh ==
    /\ username = None
    /\ domain = None
    /\ mx_records = <<>>
    /\ idx = 0
    /\ code = 0
    /\ connects = <<>>
    /\ onlyTimeouts = TRUE
    /\ acceptedAt = 0
    /\ cleanAt = 0
    /\ respondedAt = 0
    /\ dnsOutcome = "none"

NoBatch ==
    /\ rows = <<>>
    /\ i = 0
    /\ df = <<>>
    /\ columns = {}
    /\ netRows = {}

(***************************************************************************)
(* check_email                                                             *)
(***************************************************************************)
CheckEmail ==
    /\ caller = "check_email"
    /\ pc = "start"
    /\ format_valid' = is_email_format_valid(email)
    /\ IF ~format_valid'
       THEN /\ result' = <<FALSE, MsgInvalidFormat>>
            /\ pc' = "done"
       ELSE /\ pc' = "split"
            /\ UNCHANGED result
    /\ UNCHANGED <<caller, email, netRows>>
    /\ UNCHANGED proberVars
    /\ UNCHANGED batchVars

(***************************************************************************)
(* Spec: verify_email_smtp called directly on an address string, and       *)
(* check_email called on one                                               *)
(***************************************************************************)
\* addresses of the accepted shape, too long for the exhaustive small set
SampleEmails ==
    { <<"u", "@", "d", ".", "c", "o">>,
      <<"u", "@", "d", ".", "c", "o", "\n">> }

Init ==
    /\ caller \in {"verify_email_smtp", "check_email"}
    /\ email \in StringsUpTo(ProbeAlphabet, MaxProbeLen) \cup SampleEmails
    /\ pc = IF caller = "check_email" THEN "start" ELSE "split"
    /\ format_valid = FALSE
    /\ result = None
    /\ ProberFresh
    /\ NoBatch

Next ==
    \/ CheckEmail
    \/ Prober

Spec == Init /\ [][Next]_vars

(***************************************************************************)
(* Properties of verify_email_smtp and check_email, checked under Spec     *)
(***************************************************************************)
AtCount(s) == Cardinality(Occurrences(s, "@"))
Returned == pc = "done"
Failure(msg) == result = <<FALSE, msg>>
Success == result = <<TRUE, MsgExists>>

\* the address splits into exactly two non-empty parts
TwoNonEmptyParts(s) ==
    /\ AtCount(s) = 1
    /\ s[1] # "@"
    /\ s[Len(s)] # "@"

\* C1: whenever a host's RCPT reply is 250 the prober returns
\* (True, "Email exists") and contacts no later host, whatever the
\* disconnect that follows the reply does (stated for the addresses that
\* split into two non-empty parts).
C1_AcceptedReplyReturnsSuccess ==
    (acceptedAt # 0 /\ TwoNonEmptyParts(email)) =>
        /\ idx = acceptedAt
        /\ Len(connects) = acceptedAt
        /\ Returned => Success

\* C2: when DNS gave a non-empty MX list and every connection attempt timed
\* out, the prober returns (False, inconclusive message) having attempted
\* every host of the list exactly once, in the order of the list.
C2_AllTimeoutsTryEveryHostInOrder ==
    (Returned /\ dnsOutcome = "ok" /\ onlyTimeouts) =>
        /\ Failure(MsgInconclusive)
        /\ connects = mx_records

C2_Witness ==
    /\ Returned
    /\ dnsOutcome = "ok"
    /\ onlyTimeouts
    /\ Len(mx_records) = 2
    /\ mx_records[1] # mx_records[2]
    /\ connects = mx_records

\* C3: when MX resolution yields no host (empty set, or an error raised), the
\* prober returns at once with the failure message of that cause, not the
\* inconclusive one, and no SMTP connection is attempted.
C3_NoMXFailsWithoutConnecting ==
    dnsOutcome \in {"empty", "DNSException", "Exception"} =>
        /\ Returned
        /\ connects = <<>>
        /\ dnsOutcome = "empty" => Failure(MsgNoMX)
        /\ dnsOutcome = "DNSException" => Failure(MsgDNSError)
        /\ dnsOutcome = "Exception" => Failure(MsgResolveError)

C3_Witness ==
    /\ Returned
    /\ dnsOutcome = "empty"
    /\ caller = "verify_email_smtp"
    /\ Failure(MsgNoMX)

\* C5 as stated: verify_email_smtp fails with the "missing @" error, before
\* any DNS lookup or connection, whenever the string does not split on '@'
\* into exactly two non-empty parts (no '@', several '@', "@domain", "user@").
C5_MissingAtUnlessTwoNonEmptyParts ==
    (caller = "verify_email_smtp" /\ pc # "split" /\ ~TwoNonEmptyParts(email)) =>
        /\ Returned
        /\ Failure(MsgMissingAt)
        /\ dnsOutcome = "none"
        /\ connects = <<>>

\* C5 (amended): verify_email_smtp fails with the "missing @" error, before
\* any DNS lookup or connection, exactly when the string does not hold
\* exactly one '@'; with exactly one '@' it goes on to the MX lookup with the
\* text before and after the '@' as username and domain, empty or not.
C5_MissingAtIffNotExactlyOneAt ==
    (caller = "verify_email_smtp" /\ pc # "split") =>
        /\ AtCount(email) # 1 =>
              /\ Returned
              /\ Failure(MsgMissingAt)
              /\ dnsOutcome = "none"
              /\ connects = <<>>
        /\ AtCount(email) = 1 =>
              /\ ~Failure(MsgMissingAt)
              /\ email = username \o <<"@">> \o domain
              /\ Returned => dnsOutcome # "none"

C5_Witness ==
    /\ caller = "verify_email_smtp"
    /\ Returned
    /\ AtCount(email) = 2
    /\ Failure(MsgMissingAt)
    /\ dnsOutcome = "none"

C9_PositiveResultIsSound ==
    Returned =>
        /\ Len(result) = 2
        /\ result[1] \in BOOLEAN
        /\ result[1] = TRUE =>
              /\ acceptedAt \in 1..Len(mx_records)
              /\ acceptedAt \in 1..Len(connects)
              /\ code = 250
        /\ result[1] = TRUE <=> result[2] = MsgExists

C9_Witness ==
    /\ Returned
    /\ caller = "check_email"
    /\ Success
    /\ acceptedAt = 2
    /\ respondedAt = 1

(***************************************************************************)
(* SpecFormat: check_email on every string over Alphabet up to MaxLen      *)
(***************************************************************************)
InitFormat ==
    /\ caller = "check_email"
    /\ \E n \in 0..MaxLen : email \in [1..n -> Alphabet]
    /\ pc = "start"
    /\ format_valid = FALSE
    /\ result = None
    /\ ProberFresh
    /\ NoBatch

SpecFormat == InitFormat /\ [][Next]_vars

\* position of the last dot of s (0: none)
LastDot(s) ==
    IF Occurrences(s, ".") = {} THEN 0
    ELSE CHOOSE p \in Occurrences(s, ".") : \A q \in Occurrences(s, ".") : q <= p

\* The reference predicate: localpart@domain.tld, one '@', a non-empty local
\* part of local characters, then domain characters only, a non-empty domain
\* before the last dot and a final label of two or more letters that ends
\* the string.
ReferenceValid(s) ==
    /\ AtCount(s) = 1
    /\ LET a == Min(Occurrences(s, "@"))
           d == LastDot(s)
       IN  /\ a > 1
           /\ AllIn(s, 1, a - 1, LocalChars)
           /\ AllIn(s, a + 1, Len(s), DomainChars)
           /\ d > a + 1
           /\ Len(s) - d >= 2
           /\ AllIn(s, d + 1, Len(s), Letters)

Checked == caller = "check_email" /\ pc # "start"

\* C8: is_email_format_valid agrees with the reference predicate on every
\* string: true for every localpart@domain.tld of allowed characters with a
\* final label of 2+ letters, false for every string with no '@', no dot in
\* the domain, a one-letter final label or a disallowed symbol anywhere
\* (a trailing newline and a second '@' included).
C8_FormatAgreesWithReference ==
    Checked => (format_valid <=> ReferenceValid(email))

\* C10: every string is_email_format_valid accepts splits on '@' into
\* exactly two non-empty parts, so check_email never returns the
\* "missing @" error and the unpacking of the split (the prober's, and the
\* batch driver's own on the same string) never fails.
C10_AcceptedSplitsInTwoParts ==
    Checked =>
        /\ format_valid =>
              /\ Len(email_parts(email)) = 2
              /\ email_parts(email)[1] # <<>>
              /\ email_parts(email)[2] # <<>>
              /\ pc # "split" => (username # <<>> /\ domain # <<>>)
        /\ ~Failure(MsgMissingAt)

C10_Witness ==
    /\ Checked
    /\ format_valid
    /\ pc = "resolve"
    /\ username = <<"a", "%">>
    /\ domain = <<"1", ".", "a", "a">>

(***************************************************************************)
(* The batch driver: the validation loop of streamlit_email.py             *)
(***************************************************************************)
\* pd.isna(x)
isna(x) == x = NaN

\* str(x): a missing cell prints as "nan", a string is itself
str_of(x) == IF isna(x) THEN <<"n", "a", "n">> ELSE x

\* is_email_format_valid of streamlit_email.py
st_is_email_format_valid(e) ==
    IF isna(e) THEN FALSE ELSE PatternMatch(str_of(e))

AddedFields == {"format_valid", "reachable", "validation_message", "username", "domain"}

\* df['format_valid'] = False; df['reachable'] = False;
\* df['validation_message'] = ""; total_rows = len(df)
BatchAddColumns ==
    /\ pc = "batch_start"
    /\ df' = [r \in 1..Len(rows) |->
                [format_valid |-> FALSE, reachable |-> FALSE,
                 validation_message |-> "", username |-> NaN, domain |-> NaN]]
    /\ columns' = {"format_valid", "reachable", "validation_message"}
    /\ i' = 1
    /\ pc' = "batch_row"
    /\ UNCHANGED <<caller, email, format_valid, result, rows, netRows>>
    /\ UNCHANGED proberVars

\* the entry into verify_email_smtp: fresh locals
ProberCalled ==
    /\ username' = None
    /\ domain' = None
    /\ mx_records' = <<>>
    /\ idx' = 0
    /\ code' = 0
    /\ connects' = <<>>
    /\ onlyTimeouts' = TRUE
    /\ acceptedAt' = 0
    /\ cleanAt' = 0
    /\ respondedAt' = 0
    /\ dnsOutcome' = "none"

\* Variant of BatchRow that calls verify_email_smtp whatever the format check says.
BatchRowAlwaysProbes ==
    /\ pc = "batch_row"
    /\ i <= Len(rows)
    /\ email' = str_of(rows[i])
    /\ format_valid' = st_is_email_format_valid(email')
    /\ df' = [df EXCEPT ![i].format_valid = format_valid']
    /\ pc' = "split"
    /\ ProberCalled
    /\ UNCHANGED <<caller, result, rows, i, columns, netRows>>

\* one iteration of "for i, row in df.iterrows()", up to the call of
\* verify_email_smtp or, for a format-invalid address, to its end
BatchRow ==
    /\ pc = "batch_row"
    /\ i <= Len(rows)
    /\ email' = str_of(rows[i])
    /\ format_valid' = st_is_email_format_valid(email')
    /\ IF format_valid'
       THEN /\ df' = [df EXCEPT ![i].format_valid = format_valid']
            /\ pc' = "split"
            /\ UNCHANGED i
       ELSE /\ df' = [df EXCEPT ![i].format_valid = format_valid',
                                ![i].validation_message = MsgInvalidFormat]
            /\ i' = i + 1
            /\ pc' = "batch_row"
    /\ ProberCalled
    /\ UNCHANGED <<caller, result, rows, columns, netRows>>

\* verify_email_smtp returned: username, domain = email.split('@') and the
\* four assignments into the table; a failed unpacking raises ValueError, which
\* the enclosing "except Exception" reports as a file-processing error
BatchAfterProbe ==
    /\ pc = "batch_after"
    /\ LET parts == email_parts(email)
       IN  IF Len(parts) # 2
           THEN /\ pc' = "file_error"
                /\ UNCHANGED <<df, columns, i>>
           ELSE /\ df' = [df EXCEPT ![i].username = parts[1],
                                    ![i].domain = parts[2],
                                    ![i].reachable = result[1],
                                    ![i].validation_message = result[2]]
                /\ columns' = columns \cup {"username", "domain"}
                /\ i' = i + 1
                /\ pc' = "batch_row"
    /\ result' = None
    /\ ProberCalled
    /\ UNCHANGED <<caller, email, format_valid, rows, netRows>>

\* the loop is over: the table is shown and offered for download
BatchFinish ==
    /\ pc = "batch_row"
    /\ i > Len(rows)
    /\ pc' = "batch_done"
    /\ UNCHANGED <<caller, email, format_valid, result, netRows>>
    /\ UNCHANGED proberVars
    /\ UNCHANGED batchVars

\* cells of the uploaded email column: an address of the accepted shape, two
\* strings that are not, and a missing cell
BatchCells ==
    { <<"u", "@", "d", ".", "c", "o">>,
      <<"n", "o">>,
      <<"u", "@">>,
      NaN }

\* the uploaded dataset is not empty (df.empty is refused before the loop)
InitBatch ==
    /\ caller = "batch"
    /\ \E n \in 1..MaxRows : rows \in [1..n -> BatchCells]
    /\ pc = "batch_start"
    /\ email = <<>>
    /\ format_valid = FALSE
    /\ result = None
    /\ i = 0
    /\ df = <<>>
    /\ columns = {}
    /\ netRows = {}
    /\ ProberFresh

NextBatch ==
    \/ BatchAddColumns
    \/ BatchRow
    \/ BatchAfterProbe
    \/ BatchFinish
    \/ Prober

SpecBatch == InitBatch /\ [][NextBatch]_vars

(***************************************************************************)
(* Properties of the batch driver, checked under SpecBatch                 *)
(***************************************************************************)
\* the records whose address is format-invalid
InvalidRows == {r \in 1..Len(rows) : ~st_is_email_format_valid(str_of(rows[r]))}

\* the records marked unreachable with the "Invalid email format" message
MarkedInvalid ==
    {r \in 1..Len(df) :
        df[r].reachable = FALSE /\ df[r].validation_message = MsgInvalidFormat}

\* C4: after the loop exactly the M format-invalid records carry
\* reachable = false with validation_message = "Invalid email format"; no DNS
\* lookup or SMTP connection is ever made for one of them, and the prober
\* runs only for a record whose format check returned true.
C4_InvalidRowsMarkedAndNeverProbed ==
    /\ pc = "batch_done" =>
          /\ MarkedInvalid = InvalidRows
          /\ Cardinality(MarkedInvalid) = Cardinality(InvalidRows)
    /\ netRows \cap InvalidRows = {}
    /\ \A r \in netRows : df[r].format_valid = TRUE
    /\ pc \in {"split", "resolve", "loop", "helo", "mail", "rcpt", "quit", "decide",
               "batch_after"} => (format_valid /\ df[i].format_valid = TRUE)

C4_Witness ==
    /\ pc = "batch_done"
    /\ Len(rows) = 2
    /\ InvalidRows = {1}
    /\ MarkedInvalid = {1}
    /\ netRows = {2}
    /\ df[2].reachable = FALSE

\* C7: for every non-empty dataset, one without any format-valid address
\* included, the table the loop produces holds all five added fields.
C7_AllFiveFieldsPresent ==
    pc = "batch_done" => AddedFields \subseteq columns

====
